---- MODULE Spec2Model ----
(***************************************************************************)
(* Model of the RAG orchestration service of demo-rag-api:                 *)
(*   app/routes/workflow.py      the shared sk_service and the two routes  *)
(*   app/services/sk.py          SemanticKernelService.run_rag and         *)
(*                               SemanticKernelService.run_rag_agent       *)
(*   app/services/retrival_plugins.py   RetrivalPlugin.get_sources         *)
(*   app/prompt/file_service.py  FileService                               *)
(*                                                                         *)
(* Text is modelled as a sequence of tokens: a literal of the source is    *)
(* one token, string concatenation is \o, and the text of a message, a     *)
(* title or a chunk coming from outside is an opaque token sequence.       *)
(*                                                                         *)
(* One run of a route handler is a process with a program counter.  The    *)
(* external services (chat completion, embeddings, vector search, the      *)
(* prompt files on disk) are the environment: every call is recorded in    *)
(* the run's call log with its argument, its outcome and its result.       *)
(***************************************************************************)
EXTENDS Integers, Sequences, FiniteSets, TLC

VARIABLES
    svc,              \* workflow.py:9  sk_service: "down", "up" or "failed"
    envOk,            \* the three AZURE_OPENAI_* variables are set
    files,            \* the prompt files that exist on disk
    pc,               \* position of each run
    mode,             \* "rag" or "agent", "none" before the run starts
    request,          \* ChatRequest.messages of each run
    search_query,     \* sk.py:76
    user_question,    \* sk.py:79
    query_embeddings, \* sk.py:80
    results,          \* sk.py:85-90, the joined source blocks
    chat_history_1,   \* sk.py:94 and sk.py:130
    diagnostics,      \* kernel_arguments["diagnostics"]
    result,           \* the RequestResult returned, <<>> while there is none
    err,              \* the exception that ended the run, "none" while there is none
    calls,            \* the external calls of each run, in the order issued
    toolLog,          \* the get_sources invocations of each run
    rounds            \* tool rounds completed inside the tool-calling chat call

vars == <<svc, envOk, files, pc, mode, request, search_query, user_question,
          query_embeddings, results, chat_history_1, diagnostics, result, err,
          calls, toolLog, rounds>>

locals == <<search_query, user_question, query_embeddings, results,
            chat_history_1, diagnostics, toolLog, rounds>>

(***************************************************************************)
(* Bounds of the model.                                                    *)
(***************************************************************************)
MaxMsgs == 2      \* longest conversation a single run is given
MaxHits == 2      \* most documents one vector search returns
MaxRounds == 2    \* tool rounds the chat connector allows before its final call

Solo == {"s"}         \* the run explored alone, over the full input space
Pair == {"a", "b"}    \* two runs in flight at once on the shared service
Runs == Solo \cup Pair

SeqsUpTo(S, n) == UNION {[1..k -> S] : k \in 0..n}

(***************************************************************************)
(* Inputs.                                                                 *)
(***************************************************************************)
ChatMessage(role, content) == [role |-> role, content |-> content]

Messages ==
    { ChatMessage("user", <<"q1">>), ChatMessage("user", <<"q2">>),
      ChatMessage("Assistant", <<"a1">>), ChatMessage("system", <<"s1">>) }

PairRequests ==
    { <<>>, <<ChatMessage("user", <<"q1">>)>>,
      <<ChatMessage("user", <<"q2">>), ChatMessage("Assistant", <<"a1">>)>> }

Requests(r) == IF r \in Solo THEN SeqsUpTo(Messages, MaxMsgs) ELSE PairRequests

\* texts the chat model may answer with (one of them repeats a user text)
ChatTexts(r) == IF r \in Solo THEN {<<"x1">>, <<"q1">>} ELSE {<<"x1">>, <<"x2">>}

Vectors(r) == IF r \in Solo THEN {<<"v1">>, <<"v2">>} ELSE {<<"v1">>}

\* documents of the index; the last one has no "title" field
Documents ==
    { [title |-> <<"t1">>, chunk |-> <<"c1">>],
      [title |-> <<"t2">>, chunk |-> <<"c2">>],
      [chunk |-> <<"c1">>] }

Doc1 == [title |-> <<"t1">>, chunk |-> <<"c1">>]
Doc2 == [title |-> <<"t2">>, chunk |-> <<"c2">>]
DocNoTitle == [chunk |-> <<"c1">>]

Hits(r) == IF r \in Solo THEN SeqsUpTo(Documents, MaxHits)
                         ELSE {<<>>, <<Doc1>>, <<Doc2, Doc1>>}

\* what one vector search inside the tool may return
ToolHits(r) == IF r \in Solo THEN {<<>>, <<Doc1>>, <<Doc2, Doc1>>, <<Doc1, DocNoTitle>>}
                             ELSE {<<>>, <<Doc1>>}

ToolQueries == {<<"tq1">>}

PromptFiles == {"RAGSystemPrompt.txt", "RAGSearchSystemPrompt.txt", "RAGAgentSystemPrompt.txt"}

\* content of a prompt file
FileText(name) == <<"PROMPT:", name>>

(***************************************************************************)
(* Pure helpers.                                                           *)
(***************************************************************************)
LowerOmitted(role) == role

\* str.lower() on the role names the inputs use
Lower(role) == IF role = "Assistant" THEN "assistant" ELSE role

\* f"{chat_result}": the text of a chat message content
Str(msg) == msg.content

\* dict.get(key, default) on a search result
Get(d, key, default) == IF key \in DOMAIN d THEN d[key] ELSE default

Turn(role, content) == [role |-> role, content |-> content]

\* the loop "for message in messages: add_user_message / add_assistant_message"
RECURSIVE AddMessages(_, _)
AddMessages(history, messages) ==
    IF messages = <<>> THEN history
    ELSE LET m == Head(messages)
             h == IF Lower(m.role) = "user"
                      THEN Append(history, Turn("user", m.content))
                  ELSE IF Lower(m.role) = "assistant"
                      THEN Append(history, Turn("assistant", m.content))
                  ELSE history
         IN AddMessages(h, Tail(messages))

\* ChatHistory() + add_system_message + the loop over the given messages
NewHistory(system_message, messages) ==
    AddMessages(<<Turn("system", system_message)>>, messages)

\* request.messages[:-1]
AllButLast(messages) ==
    IF messages = <<>> THEN <<>> ELSE SubSeq(messages, 1, Len(messages) - 1)

\* f"<source><name>{source}</name><content>{content}</content></source>"
SourceBlock(hit) ==
    <<"<source><name>">> \o Get(hit, "title", <<"Unknown Source">>)
        \o <<"</name><content>">> \o Get(hit, "chunk", <<"No Content">>)
        \o <<"</content></source>">>

\* "\n".join(blocks)
RECURSIVE JoinLines(_)
JoinLines(blocks) ==
    IF blocks = <<>> THEN <<>>
    ELSE IF Len(blocks) = 1 THEN Head(blocks)
    ELSE Head(blocks) \o <<"\n">> \o JoinLines(Tail(blocks))

FormatResultsReversed(hits) ==
    JoinLines([i \in 1..Len(hits) |-> SourceBlock(hits[Len(hits) + 1 - i])])

\* the loop building results from search_results, then the join
FormatResults(hits) == JoinLines([i \in 1..Len(hits) |-> SourceBlock(hits[i])])

\* "Sources:\n\n" + results + "\n\n" + "\n\nQuestion: " + user_question
GroundedTurn(res, question) ==
    <<"Sources:\n\n">> \o res \o <<"\n\n">> \o <<"\n\nQuestion: ">> \o question

\* not request.messages
EmptyRequestNever(messages) == FALSE

EmptyRequest(messages) == messages = <<>>

\* FileService.read_file: the file's text, or the RuntimeError
ReadFile(name) ==
    IF name \in PromptFiles /\ name \in files
        THEN [ok |-> TRUE, text |-> FileText(name)]
        ELSE [ok |-> FALSE, text |-> <<>>]

(***************************************************************************)
(* The call log.  status is "pending" while an awaited call is in flight.  *)
(***************************************************************************)
Call(kind, arg, status, out) == [kind |-> kind, arg |-> arg, status |-> status, out |-> out]

FileCall(name) ==
    Call("file", <<name>>, IF ReadFile(name).ok THEN "ok" ELSE "error", ReadFile(name).text)

\* the last call of the log completed with the given status and result
Complete(log, status, out) ==
    [log EXCEPT ![Len(log)] = [@ EXCEPT !.status = status, !.out = out]]

Raise(r, e) ==
    /\ pc' = [pc EXCEPT ![r] = "failed"]
    /\ err' = [err EXCEPT ![r] = e]
    /\ UNCHANGED result

(***************************************************************************)
(* Initial state: the process has not imported app.routes.workflow yet.    *)
(***************************************************************************)
Init ==
    /\ svc = "down"
    /\ envOk \in BOOLEAN
    /\ files \in SUBSET PromptFiles
    /\ pc = [r \in Runs |-> "idle"]
    /\ mode = [r \in Runs |-> "none"]
    /\ request = [r \in Runs |-> <<>>]
    /\ search_query = [r \in Runs |-> <<>>]
    /\ user_question = [r \in Runs |-> <<>>]
    /\ query_embeddings = [r \in Runs |-> <<>>]
    /\ results = [r \in Runs |-> <<>>]
    /\ chat_history_1 = [r \in Runs |-> <<>>]
    /\ diagnostics = [r \in Runs |-> <<>>]
    /\ result = [r \in Runs |-> <<>>]
    /\ err = [r \in Runs |-> "none"]
    /\ calls = [r \in Runs |-> <<>>]
    /\ toolLog = [r \in Runs |-> <<>>]
    /\ rounds = [r \in Runs |-> 0]

\* sk_service = SemanticKernelService(): fails only on missing configuration;
\* FileService() records the three paths and opens nothing
Startup ==
    /\ svc = "down"
    /\ svc' = IF envOk THEN "up" ELSE "failed"
    /\ UNCHANGED <<envOk, files, pc, mode, request, result, err, calls, locals>>

(***************************************************************************)
(* run_rag                                                                 *)
(***************************************************************************)
\* POST /rag -> run_rag, up to the await of the rewrite call (sk.py:58-75)
RunRag(r) ==
    /\ svc = "up"
    /\ pc[r] = "idle"
    /\ \E req \in Requests(r) :
        /\ request' = [request EXCEPT ![r] = req]
        /\ mode' = [mode EXCEPT ![r] = "rag"]
        /\ IF EmptyRequest(req)
             THEN /\ Raise(r, "EmptyConversation")
                  /\ UNCHANGED calls
           ELSE LET f == ReadFile("RAGSearchSystemPrompt.txt")
                    log == Append(calls[r], FileCall("RAGSearchSystemPrompt.txt"))
                IN IF ~f.ok
                     THEN /\ Raise(r, "PromptNotFound")
                          /\ calls' = [calls EXCEPT ![r] = log]
                   ELSE /\ calls' = [calls EXCEPT ![r] =
                              Append(log, Call("chat", NewHistory(f.text, req), "pending", <<>>))]
                        /\ pc' = [pc EXCEPT ![r] = "await_rewrite"]
                        /\ UNCHANGED <<err, result>>
    /\ UNCHANGED <<svc, envOk, files, locals>>

\* the awaited rewrite call returns or raises (sk.py:75-76)
RagRewriteDone(r) ==
    /\ pc[r] = "await_rewrite"
    /\ \/ /\ calls' = [calls EXCEPT ![r] = Complete(calls[r], "error", <<>>)]
          /\ Raise(r, "ChatServiceUnavailable")
          /\ UNCHANGED search_query
       \/ \E t \in ChatTexts(r) :
            LET search_chat_result == Turn("assistant", t)
            IN /\ calls' = [calls EXCEPT ![r] = Complete(calls[r], "ok", t)]
               /\ search_query' = [search_query EXCEPT ![r] = Str(search_chat_result)]
               /\ pc' = [pc EXCEPT ![r] = "embed"]
               /\ UNCHANGED <<err, result>>
    /\ UNCHANGED <<svc, envOk, files, mode, request, user_question, query_embeddings,
                   results, chat_history_1, diagnostics, toolLog, rounds>>

\* the text the embedding is computed from (sk.py:80, input=search_query)
EmbedInputRaw(r) == request[r][Len(request[r])].content

EmbedInput(r) == search_query[r]

\* user_question = request.messages[-1].content, then embeddings.create (sk.py:79-80)
RagEmbedBody(r, onError) ==
    /\ pc[r] = "embed"
    /\ IF request[r] = <<>>
         THEN /\ Raise(r, "IndexError")
              /\ UNCHANGED <<calls, user_question, query_embeddings>>
       ELSE /\ user_question' = [user_question EXCEPT ![r] = request[r][Len(request[r])].content]
            /\ \/ /\ calls' = [calls EXCEPT ![r] =
                        Append(calls[r], Call("embed", EmbedInput(r), "error", <<>>))]
                  /\ IF onError = "raise"
                       THEN Raise(r, "RetrievalUnavailable")
                       ELSE /\ pc' = [pc EXCEPT ![r] = "search"]
                            /\ UNCHANGED <<err, result>>
                  /\ UNCHANGED query_embeddings
               \/ \E v \in Vectors(r) :
                    /\ calls' = [calls EXCEPT ![r] =
                          Append(calls[r], Call("embed", EmbedInput(r), "ok", v))]
                    /\ query_embeddings' = [query_embeddings EXCEPT ![r] = v]
                    /\ pc' = [pc EXCEPT ![r] = "search"]
                    /\ UNCHANGED <<err, result>>
    /\ UNCHANGED <<svc, envOk, files, mode, request, search_query, results,
                   chat_history_1, diagnostics, toolLog, rounds>>

RagEmbedSwallow(r) == RagEmbedBody(r, "swallow")

RagEmbed(r) == RagEmbedBody(r, "raise")

\* the vector search and the loop over its results (sk.py:83-90)
RagSearch(r) ==
    /\ pc[r] = "search"
    /\ \/ /\ calls' = [calls EXCEPT ![r] =
                Append(calls[r], Call("search", query_embeddings[r], "error", <<>>))]
          /\ Raise(r, "RetrievalUnavailable")
          /\ UNCHANGED results
       \/ \E hits \in Hits(r) :
            /\ calls' = [calls EXCEPT ![r] =
                  Append(calls[r], Call("search", query_embeddings[r], "ok", hits))]
            /\ results' = [results EXCEPT ![r] = FormatResults(hits)]
            /\ pc' = [pc EXCEPT ![r] = "assemble"]
            /\ UNCHANGED <<err, result>>
    /\ UNCHANGED <<svc, envOk, files, mode, request, search_query, user_question,
                   query_embeddings, chat_history_1, diagnostics, toolLog, rounds>>

BindChatHistoryShared(r, history) == [x \in Runs |-> history]

\* chat_history_1 = ChatHistory() ...: a local of the running coroutine
BindChatHistory(r, history) == [chat_history_1 EXCEPT ![r] = history]

\* the generation history, up to the await of the generation call (sk.py:93-106)
RagAssemble(r) ==
    /\ pc[r] = "assemble"
    /\ LET f == ReadFile("RAGSystemPrompt.txt")
           log == Append(calls[r], FileCall("RAGSystemPrompt.txt"))
           user_message == GroundedTurn(results[r], user_question[r])
           history == Append(NewHistory(f.text, AllButLast(request[r])),
                             Turn("user", user_message))
       IN IF ~f.ok
            THEN /\ Raise(r, "PromptNotFound")
                 /\ calls' = [calls EXCEPT ![r] = log]
                 /\ UNCHANGED chat_history_1
          ELSE /\ chat_history_1' = BindChatHistory(r, history)
               /\ calls' = [calls EXCEPT ![r] =
                     Append(log, Call("chat", history, "pending", <<>>))]
               /\ pc' = [pc EXCEPT ![r] = "await_generate"]
               /\ UNCHANGED <<err, result>>
    /\ UNCHANGED <<svc, envOk, files, mode, request, search_query, user_question,
                   query_embeddings, results, diagnostics, toolLog, rounds>>

\* RequestResult(content=f"{chat_result}", execution_diagnostics=ExecutionDiagnostics(steps=...))
RequestResult(content, steps) == [content |-> content, steps |-> steps]

\* the awaited generation call returns or raises; the result is built (sk.py:106-115)
RagGenerateDone(r) ==
    /\ pc[r] = "await_generate"
    /\ \/ /\ calls' = [calls EXCEPT ![r] = Complete(calls[r], "error", <<>>)]
          /\ Raise(r, "ChatServiceUnavailable")
          /\ UNCHANGED diagnostics
       \/ \E t \in ChatTexts(r) :
            LET chat_result == Turn("assistant", t)
            IN /\ calls' = [calls EXCEPT ![r] = Complete(calls[r], "ok", t)]
               /\ diagnostics' = [diagnostics EXCEPT ![r] = <<>>]
               /\ result' = [result EXCEPT ![r] =
                     <<RequestResult(Str(chat_result), diagnostics'[r])>>]
               /\ pc' = [pc EXCEPT ![r] = "done"]
               /\ UNCHANGED err
    /\ UNCHANGED <<svc, envOk, files, mode, request, search_query, user_question,
                   query_embeddings, results, chat_history_1, toolLog, rounds>>

(***************************************************************************)
(* run_rag_agent.  The tool-calling loop runs inside the awaited           *)
(* get_chat_message_content call of sk.py:139-143: the connector sends the *)
(* history to the model, runs the requested get_sources call, appends the  *)
(* call and its result to chat_history_1 and asks again, at most MaxRounds *)
(* times, then asks once more with tool calling switched off.  One tool    *)
(* call per model reply is modelled.                                       *)
(***************************************************************************)
\* POST /rag-agent -> run_rag_agent, up to the await (sk.py:117-143)
RunRagAgent(r) ==
    /\ svc = "up"
    /\ pc[r] = "idle"
    /\ \E req \in Requests(r) :
        /\ request' = [request EXCEPT ![r] = req]
        /\ mode' = [mode EXCEPT ![r] = "agent"]
        /\ IF EmptyRequest(req)
             THEN /\ Raise(r, "EmptyConversation")
                  /\ UNCHANGED <<calls, chat_history_1>>
           ELSE LET f == ReadFile("RAGAgentSystemPrompt.txt")
                    log == Append(calls[r], FileCall("RAGAgentSystemPrompt.txt"))
                    history == NewHistory(f.text, req)
                IN IF ~f.ok
                     THEN /\ Raise(r, "PromptNotFound")
                          /\ calls' = [calls EXCEPT ![r] = log]
                          /\ UNCHANGED chat_history_1
                   ELSE /\ chat_history_1' = BindChatHistory(r, history)
                        /\ calls' = [calls EXCEPT ![r] =
                              Append(log, Call("chat", history, "pending", <<>>))]
                        /\ pc' = [pc EXCEPT ![r] = "await_model"]
                        /\ UNCHANGED <<err, result>>
    /\ UNCHANGED <<svc, envOk, files, search_query, user_question, query_embeddings,
                   results, diagnostics, toolLog, rounds>>

ToolCallText(q) == <<"call:get_sources">> \o q

\* the query_text argument of the tool call the model asked for last
PendingQuery(r) == Tail(chat_history_1[r][Len(chat_history_1[r])].content)

\* the model replies inside the awaited call; on a final message the call
\* returns and the result is built (sk.py:139-151)
AgentModelReply(r) ==
    /\ pc[r] = "await_model"
    /\ \/ /\ calls' = [calls EXCEPT ![r] = Complete(calls[r], "error", <<>>)]
          /\ Raise(r, "ChatServiceUnavailable")
          /\ UNCHANGED <<chat_history_1, diagnostics>>
       \/ \E t \in ChatTexts(r) :
            LET chat_result == Turn("assistant", t)
            IN /\ calls' = [calls EXCEPT ![r] = Complete(calls[r], "ok", t)]
               /\ diagnostics' = [diagnostics EXCEPT ![r] = <<>>]
               /\ result' = [result EXCEPT ![r] =
                     <<RequestResult(Str(chat_result), diagnostics'[r])>>]
               /\ pc' = [pc EXCEPT ![r] = "done"]
               /\ UNCHANGED <<err, chat_history_1>>
       \/ /\ rounds[r] < MaxRounds
          /\ \E q \in ToolQueries :
               /\ calls' = [calls EXCEPT ![r] = Complete(calls[r], "ok", ToolCallText(q))]
               /\ chat_history_1' = [chat_history_1 EXCEPT ![r] =
                     Append(@, Turn("assistant", ToolCallText(q)))]
               /\ pc' = [pc EXCEPT ![r] = "tool"]
               /\ UNCHANGED <<err, result, diagnostics>>
    /\ UNCHANGED <<svc, envOk, files, mode, request, search_query, user_question,
                   query_embeddings, results, toolLog, rounds>>

KnowledgeSource(name, content) == [name |-> name, content |-> content]

\* the try block of get_sources: embeddings.create, search, result["title"], result["chunk"]
GetSourcesTry(embed, search) ==
    IF ~embed.ok \/ ~search.ok
        \/ \E i \in 1..Len(search.hits) : {"title", "chunk"} \ DOMAIN search.hits[i] # {}
        THEN [raised |-> TRUE, value |-> <<>>]
        ELSE [raised |-> FALSE,
              value |-> [i \in 1..Len(search.hits) |->
                            KnowledgeSource(search.hits[i].title, search.hits[i].chunk)]]

get_sources_nocatch(embed, search) == GetSourcesTry(embed, search)

\* RetrivalPlugin.get_sources: except Exception -> return []
get_sources(embed, search) ==
    IF GetSourcesTry(embed, search).raised
        THEN [raised |-> FALSE, value |-> <<>>]
        ELSE GetSourcesTry(embed, search)

\* str() of the list the tool returns, as the tool-result turn carries it
RECURSIVE ListText(_)
ListText(sources) ==
    IF sources = <<>> THEN <<>>
    ELSE <<"KnowledgeSource(">> \o Head(sources).name \o <<",">> \o Head(sources).content
            \o <<")">> \o ListText(Tail(sources))

\* the embedding the tool's embeddings.create call returns
ToolVectors == {<<"v1">>}

EmbedOutcomes(r) == {[ok |-> FALSE, v |-> <<>>]} \cup {[ok |-> TRUE, v |-> v] : v \in ToolVectors}

SearchOutcomes(r) ==
    {[ok |-> FALSE, hits |-> <<>>]} \cup {[ok |-> TRUE, hits |-> h] : h \in ToolHits(r)}

\* the connector invokes get_sources, appends its result and asks the model again
GetSources(r) ==
    /\ pc[r] = "tool"
    /\ \E embed \in EmbedOutcomes(r), search \in SearchOutcomes(r) :
         LET q == PendingQuery(r)
             ecall == Call("embed", q, IF embed.ok THEN "ok" ELSE "error", embed.v)
             scall == Call("search", embed.v, IF search.ok THEN "ok" ELSE "error", search.hits)
             log == IF embed.ok THEN calls[r] \o <<ecall, scall>> ELSE Append(calls[r], ecall)
             out == get_sources(embed, search)
             history == Append(chat_history_1[r], Turn("tool", <<"[">> \o ListText(out.value) \o <<"]">>))
         IN /\ embed.ok \/ search = [ok |-> FALSE, hits |-> <<>>]
            /\ toolLog' = [toolLog EXCEPT ![r] = Append(@,
                  [query |-> q, failed |-> GetSourcesTry(embed, search).raised,
                   raised |-> out.raised, value |-> out.value])]
            /\ IF out.raised
                 THEN /\ Raise(r, "RetrievalUnavailable")
                      /\ calls' = [calls EXCEPT ![r] = log]
                      /\ UNCHANGED <<chat_history_1, rounds>>
               ELSE /\ chat_history_1' = [chat_history_1 EXCEPT ![r] = history]
                    /\ rounds' = [rounds EXCEPT ![r] = @ + 1]
                    /\ calls' = [calls EXCEPT ![r] =
                          Append(log, Call("chat", history, "pending", <<>>))]
                    /\ pc' = [pc EXCEPT ![r] = "await_model"]
                    /\ UNCHANGED <<err, result>>
    /\ UNCHANGED <<svc, envOk, files, mode, request, search_query, user_question,
                   query_embeddings, results, diagnostics>>

Step(r) ==
    \/ RunRag(r)
    \/ RagRewriteDone(r)
    \/ RagEmbed(r)
    \/ RagSearch(r)
    \/ RagAssemble(r)
    \/ RagGenerateDone(r)
    \/ RunRagAgent(r)
    \/ AgentModelReply(r)
    \/ GetSources(r)

Next ==
    \/ Startup
    \/ \E r \in Solo : Step(r)

Spec == Init /\ [][Next]_vars

(***************************************************************************)
(* Two requests in flight on the started service, interleaved at every     *)
(* step.                                                                   *)
(***************************************************************************)
InitPair ==
    /\ svc = "up"
    /\ envOk = TRUE
    /\ files = PromptFiles
    /\ pc = [r \in Runs |-> "idle"]
    /\ mode = [r \in Runs |-> "none"]
    /\ request = [r \in Runs |-> <<>>]
    /\ search_query = [r \in Runs |-> <<>>]
    /\ user_question = [r \in Runs |-> <<>>]
    /\ query_embeddings = [r \in Runs |-> <<>>]
    /\ results = [r \in Runs |-> <<>>]
    /\ chat_history_1 = [r \in Runs |-> <<>>]
    /\ diagnostics = [r \in Runs |-> <<>>]
    /\ result = [r \in Runs |-> <<>>]
    /\ err = [r \in Runs |-> "none"]
    /\ calls = [r \in Runs |-> <<>>]
    /\ toolLog = [r \in Runs |-> <<>>]
    /\ rounds = [r \in Runs |-> 0]

NextPair == \E r \in Pair : Step(r)

SpecPair == InitPair /\ [][NextPair]_vars

(***************************************************************************)
(* Properties.                                                             *)
(***************************************************************************)
IsExternal(c) == c.kind # "file"
IsChat(c) == c.kind = "chat"
ExternalCalls(r) == SelectSeq(calls[r], IsExternal)
ChatCalls(r) == SelectSeq(calls[r], IsChat)
Kinds(log) == [i \in 1..Len(log) |-> log[i].kind]
StepNames(steps) == [i \in 1..Len(steps) |-> steps[i].name]
Returned(r) == pc[r] = "done" /\ result[r] # <<>>

\* C1: a successful run_rag returns diagnostics of exactly four steps, in the
\* order rewrite, retrieval, assembly, generation.
C1_FourDiagnosticSteps ==
    \A r \in Runs :
        (mode[r] = "rag" /\ Returned(r)) =>
            StepNames(result[r][1].steps) = <<"rewrite", "retrieval", "assembly", "generation">>

\* C2: a request with zero messages makes run_rag and run_rag_agent fail with
\* the empty-conversation error before any chat, embedding, search or
\* prompt-file call has been issued by that run.
C2_EmptyRejectedBeforeAnyCall ==
    \A r \in Runs :
        /\ (mode[r] # "none" /\ request[r] = <<>>) =>
              /\ pc[r] = "failed"
              /\ err[r] = "EmptyConversation"
              /\ result[r] = <<>>
              /\ calls[r] = <<>>
        /\ err[r] = "EmptyConversation" => (request[r] = <<>> /\ calls[r] = <<>>)

C2_Witness ==
    /\ mode["a"] = "rag" /\ request["a"] = <<>> /\ err["a"] = "EmptyConversation"
    /\ mode["b"] = "agent" /\ request["b"] = <<>> /\ err["b"] = "EmptyConversation"

\* C3: in run_rag a failed call (the embedding or the search in particular)
\* is the last call the run issues: the run has failed with an error, no
\* generation call follows and no RequestResult is returned.
C3_StageFailureStopsRun ==
    \A r \in Runs :
        mode[r] = "rag" =>
            \A i \in 1..Len(calls[r]) :
                calls[r][i].status = "error" =>
                    /\ i = Len(calls[r])
                    /\ pc[r] = "failed"
                    /\ err[r] # "none"
                    /\ result[r] = <<>>

C3_Witness ==
    \E r \in Runs :
        /\ mode[r] = "rag" /\ pc[r] = "failed" /\ err[r] = "RetrievalUnavailable"
        /\ calls[r][Len(calls[r])].kind = "embed"
        /\ calls[r][Len(calls[r])].status = "error"
        /\ Len(ChatCalls(r)) = 1

\* C4: in agent mode a failure of the embedding call, of the search call or
\* of the mapping of the results inside get_sources never leaves the tool:
\* the tool returns the empty list, the run does not fail with it, and the
\* next model call is issued with the empty tool result as its last turn.
C4_ToolAbsorbsRetrievalFailure ==
    \A r \in Runs :
        mode[r] = "agent" =>
            /\ err[r] # "RetrievalUnavailable"
            /\ \A i \in 1..Len(toolLog[r]) :
                  toolLog[r][i].failed =>
                      /\ ~toolLog[r][i].raised
                      /\ toolLog[r][i].value = <<>>
                      /\ Len(ChatCalls(r)) >= i + 1
                      /\ LET h == ChatCalls(r)[i + 1].arg
                         IN h[Len(h)] = Turn("tool", <<"[", "]">>)

C4_Witness ==
    \E r \in Runs :
        /\ mode[r] = "agent" /\ pc[r] = "await_model"
        /\ toolLog[r] # <<>>
        /\ toolLog[r][Len(toolLog[r])].failed
        /\ calls[r][Len(calls[r]) - 1].kind = "search"
        /\ calls[r][Len(calls[r]) - 1].status = "error"
        /\ calls[r][Len(calls[r])].status = "pending"

\* C5: when the model has asked for a tool call in every one of the
\* MaxRounds rounds, run_rag_agent issues no further model call, returns no
\* RequestResult and fails with AgentRoundLimitExceeded.
C5_RoundLimitFailsRun ==
    \A r \in Runs :
        (mode[r] = "agent" /\ rounds[r] = MaxRounds) =>
            /\ result[r] = <<>>
            /\ Len(ChatCalls(r)) <= MaxRounds
            /\ pc[r] \in {"done", "failed"} => err[r] = "AgentRoundLimitExceeded"

\* C6: the diagnostics run_rag_agent returns hold one tool_call step per
\* get_sources invocation of the run, in order, then one final step that
\* carries the answer text.
C6_AgentDiagnosticsTrace ==
    \A r \in Runs :
        (mode[r] = "agent" /\ Returned(r)) =>
            LET steps == result[r][1].steps
                n == Len(toolLog[r])
            IN /\ Len(steps) = n + 1
               /\ \A i \in 1..n : steps[i].name = "tool_call"
               /\ steps[n + 1].content = result[r][1].content

\* C7: a successful run_rag has issued exactly four external calls, one after
\* the other: the rewrite chat call, the embedding call on the text the
\* rewrite call returned, the search on the vector the embedding call
\* returned, and the generation chat call; at no time is a call of the run
\* in flight while a later one is issued.
C7_SequentialCallsFromRewrite ==
    \A r \in Runs :
        mode[r] = "rag" =>
            /\ \A i \in 1..Len(calls[r]) : calls[r][i].status = "pending" => i = Len(calls[r])
            /\ Returned(r) =>
                  LET ext == ExternalCalls(r)
                  IN /\ Kinds(ext) = <<"chat", "embed", "search", "chat">>
                     /\ \A i \in 1..4 : ext[i].status = "ok"
                     /\ ext[2].arg = ext[1].out
                     /\ ext[3].arg = ext[2].out

C7_Witness ==
    \E r \in Runs :
        /\ mode[r] = "rag" /\ Returned(r)
        /\ ExternalCalls(r)[1].out # request[r][Len(request[r])].content
        /\ ExternalCalls(r)[2].arg = ExternalCalls(r)[1].out

(***************************************************************************)
(* A reader of the grounded turn: the header, the tagged blocks separated  *)
(* by line breaks, the blank lines, the question.                          *)
(***************************************************************************)
IndexOf(toks, tok) ==
    IF \E i \in 1..Len(toks) : toks[i] = tok
        THEN CHOOSE i \in 1..Len(toks) : toks[i] = tok /\ \A j \in 1..(i - 1) : toks[j] # tok
        ELSE 0

RECURSIVE ParseSources(_)
ParseSources(toks) ==
    IF toks # <<>> /\ Head(toks) = "<source><name>"
        THEN LET a == IndexOf(toks, "</name><content>")
                 b == IndexOf(toks, "</content></source>")
             IN IF a = 0 \/ b = 0 \/ b < a
                    THEN [ok |-> FALSE, blocks |-> <<>>, rest |-> toks]
                ELSE LET block == [name |-> SubSeq(toks, 2, a - 1),
                                   content |-> SubSeq(toks, a + 1, b - 1)]
                         after == SubSeq(toks, b + 1, Len(toks))
                         more == IF after # <<>> /\ Head(after) = "\n"
                                     THEN LET m == ParseSources(Tail(after))
                                          IN [m EXCEPT !.ok = m.ok /\ m.blocks # <<>>]
                                     ELSE [ok |-> TRUE, blocks |-> <<>>, rest |-> after]
                     IN [ok |-> more.ok, blocks |-> <<block>> \o more.blocks, rest |-> more.rest]
        ELSE [ok |-> TRUE, blocks |-> <<>>, rest |-> toks]

ParseGroundedTurn(text) ==
    IF text = <<>> \/ Head(text) # "Sources:\n\n"
        THEN [ok |-> FALSE, blocks |-> <<>>, question |-> <<>>]
    ELSE LET p == ParseSources(Tail(text))
         IN [ok |-> /\ p.ok
                    /\ Len(p.rest) >= 2
                    /\ p.rest[1] = "\n\n"
                    /\ p.rest[2] = "\n\nQuestion: ",
             blocks |-> p.blocks,
             question |-> SubSeq(p.rest, 3, Len(p.rest))]

\* the source name and the content a search result carries
Passage(hit) ==
    [name |-> IF "title" \in DOMAIN hit THEN hit.title ELSE <<"Unknown Source">>,
     content |-> IF "chunk" \in DOMAIN hit THEN hit.chunk ELSE <<"No Content">>]

SearchHits(r) == SelectSeq(calls[r], LAMBDA c : c.kind = "search")[1].out

GroundedText(r) == chat_history_1[r][Len(chat_history_1[r])].content

\* C8: the grounded turn run_rag builds reads back as one tagged block per
\* search result, with that result's source name and content, in the order
\* of the search results, followed by the text of the request's last
\* message; with no search result it is the same turn with no block.
C8_GroundedTurnKeepsPassages ==
    \A r \in Runs :
        (mode[r] = "rag" /\ chat_history_1[r] # <<>>) =>
            LET p == ParseGroundedTurn(GroundedText(r))
                hits == SearchHits(r)
            IN /\ p.ok
               /\ p.blocks = [i \in 1..Len(hits) |-> Passage(hits[i])]
               /\ p.question = request[r][Len(request[r])].content
               /\ chat_history_1[r][Len(chat_history_1[r])].role = "user"

C8_Witness ==
    \E r \in Runs :
        /\ mode[r] = "rag" /\ pc[r] = "await_generate"
        /\ SearchHits(r) = <<Doc2, DocNoTitle>>
        /\ ParseGroundedTurn(GroundedText(r)).blocks = <<Passage(Doc2), Passage(DocNoTitle)>>

C8_WitnessNoSources ==
    \E r \in Runs :
        /\ mode[r] = "rag" /\ pc[r] = "await_generate"
        /\ SearchHits(r) = <<>>
        /\ GroundedText(r) = <<"Sources:\n\n", "\n\n", "\n\nQuestion: ">> \o user_question[r]

(***************************************************************************)
(* What a run sends and holds, computed from its own request and the       *)
(* results of its own calls alone.                                         *)
(***************************************************************************)
OwnRagChatArg(r, k) ==
    IF k = 1 THEN NewHistory(FileText("RAGSearchSystemPrompt.txt"), request[r])
    ELSE Append(NewHistory(FileText("RAGSystemPrompt.txt"), AllButLast(request[r])),
                Turn("user", GroundedTurn(FormatResults(SearchHits(r)),
                                          request[r][Len(request[r])].content)))

RECURSIVE OwnAgentHistory(_, _)
OwnAgentHistory(r, k) ==
    IF k = 1 THEN NewHistory(FileText("RAGAgentSystemPrompt.txt"), request[r])
    ELSE OwnAgentHistory(r, k - 1)
            \o << Turn("assistant", ChatCalls(r)[k - 1].out),
                  Turn("tool", <<"[">> \o ListText(toolLog[r][k - 1].value) \o <<"]">>) >>

\* C9: with two runs in flight on the shared service, every history a run
\* sends to the chat service, the text it embeds, the vector it searches
\* with, its formatted sources and its returned result follow from its own
\* request and the results of its own calls, whatever the other run does.
C9_RunsShareNoRequestState ==
    \A r \in Runs :
        /\ \A k \in 1..Len(ChatCalls(r)) :
              ChatCalls(r)[k].arg =
                  IF mode[r] = "rag" THEN OwnRagChatArg(r, k) ELSE OwnAgentHistory(r, k)
        /\ mode[r] = "rag" =>
              LET ext == ExternalCalls(r)
              IN /\ Len(ext) >= 2 => ext[2].arg = ext[1].out
                 /\ Len(ext) >= 3 => ext[3].arg = ext[2].out
                 /\ pc[r] \in {"assemble", "await_generate", "done"} =>
                        results[r] = FormatResults(SearchHits(r))
        /\ pc[r] = "idle" => /\ calls[r] = <<>> /\ chat_history_1[r] = <<>>
                             /\ search_query[r] = <<>> /\ results[r] = <<>>
        /\ Returned(r) =>
              /\ result[r][1].content = ChatCalls(r)[Len(ChatCalls(r))].out
              /\ result[r][1].steps = diagnostics[r]

C9_Witness ==
    /\ mode["a"] = "rag" /\ pc["a"] = "await_generate"
    /\ mode["b"] = "agent" /\ pc["b"] = "await_model" /\ rounds["b"] = 1
    /\ request["a"] # request["b"]

\* C10: once the service has started, no run fails with the prompt-not-found
\* error.
C10_NoPromptErrorAfterStart ==
    \A r \in Runs : svc = "up" => err[r] # "PromptNotFound"

(***************************************************************************)
(* The request as the claims read it: the role of a message, whatever its  *)
(* spelling, and the turns a list of messages stands for.                  *)
(***************************************************************************)
RoleOf(m) ==
    IF m.role \in {"user", "User", "USER"} THEN "user"
    ELSE IF m.role \in {"assistant", "Assistant", "ASSISTANT"} THEN "assistant"
    ELSE "other"

AsTurns(messages) ==
    [i \in 1..Len(messages) |-> Turn(RoleOf(messages[i]), messages[i].content)]

UserIndexes(messages) == {i \in 1..Len(messages) : RoleOf(messages[i]) = "user"}

LastUserIndex(messages) ==
    IF UserIndexes(messages) = {} THEN 0
    ELSE CHOOSE i \in UserIndexes(messages) : \A j \in UserIndexes(messages) : j <= i

Without(messages, k) ==
    SubSeq(messages, 1, k - 1) \o SubSeq(messages, k + 1, Len(messages))

OnlyUserAndAssistant(messages) ==
    \A i \in 1..Len(messages) : RoleOf(messages[i]) # "other"

\* C11: for a request of user and assistant turns that has a user turn, the
\* history run_rag sends to the generation call is the RAG system prompt,
\* then every turn of the request but its last user turn, in order, then
\* the grounded turn whose question is the text of that last user turn; the
\* request still reads as it did when the rewrite history was built.
C11_GenerationHistory ==
    \A r \in Runs :
        ( /\ mode[r] = "rag"
          /\ Len(ChatCalls(r)) >= 2
          /\ OnlyUserAndAssistant(request[r])
          /\ LastUserIndex(request[r]) > 0 ) =>
            LET k == LastUserIndex(request[r])
            IN /\ ChatCalls(r)[2].arg =
                      <<Turn("system", FileText("RAGSystemPrompt.txt"))>>
                          \o AsTurns(Without(request[r], k))
                          \o <<Turn("user", GroundedTurn(FormatResults(SearchHits(r)),
                                                         request[r][k].content))>>
               /\ ChatCalls(r)[1].arg =
                      <<Turn("system", FileText("RAGSearchSystemPrompt.txt"))>>
                          \o AsTurns(request[r])

\* the system prompt of the first history a run builds
FirstPrompt(r) ==
    IF mode[r] = "rag" THEN "RAGSearchSystemPrompt.txt" ELSE "RAGAgentSystemPrompt.txt"

\* every message as a turn, its role kept, whatever the role is
GivenTurns(messages) ==
    [i \in 1..Len(messages) |->
        Turn(IF RoleOf(messages[i]) = "other" THEN messages[i].role ELSE RoleOf(messages[i]),
             messages[i].content)]

IsUserOrAssistant(m) == RoleOf(m) # "other"

OneLeadingSystemTurn(history) ==
    /\ history # <<>>
    /\ history[1].role = "system"
    /\ \A i \in 2..Len(history) : history[i].role # "system"

\* C12 as stated: the first history a run sends to the model (the rewrite
\* history of run_rag, the history of run_rag_agent) is the system prompt
\* followed by every turn of the request, none dropped, in submitted order;
\* every history sent has one system turn, the first.
C12_HistoryKeepsEveryTurn ==
    \A r \in Runs :
        ChatCalls(r) # <<>> =>
            /\ ChatCalls(r)[1].arg =
                  <<Turn("system", FileText(FirstPrompt(r)))>> \o GivenTurns(request[r])
            /\ \A k \in 1..Len(ChatCalls(r)) : OneLeadingSystemTurn(ChatCalls(r)[k].arg)

\* C12 as amended: the first history a run sends to the model is the system
\* prompt followed by the request's user and assistant turns, the role read
\* without regard to case, in submitted order and with their content as
\* given; turns of any other role are left out; every history sent has one
\* system turn, the first.
C12_HistoryKeepsUserAndAssistantTurns ==
    \A r \in Runs :
        ChatCalls(r) # <<>> =>
            /\ ChatCalls(r)[1].arg =
                  <<Turn("system", FileText(FirstPrompt(r)))>>
                      \o AsTurns(SelectSeq(request[r], IsUserOrAssistant))
            /\ \A k \in 1..Len(ChatCalls(r)) : OneLeadingSystemTurn(ChatCalls(r)[k].arg)

C12_Witness ==
    \E r \in Runs :
        /\ mode[r] = "agent" /\ rounds[r] = 1 /\ pc[r] = "await_model"
        /\ request[r] = <<ChatMessage("system", <<"s1">>), ChatMessage("Assistant", <<"a1">>)>>
        /\ ChatCalls(r)[1].arg =
              <<Turn("system", FileText("RAGAgentSystemPrompt.txt")), Turn("assistant", <<"a1">>)>>

====
